---- MODULE Spec2Model ----
(***************************************************************************)
(* The signal-processing engine of src/modules/signal_processing.py:       *)
(* generate_signal, compute_fft, add_noise and filter_signal, each called   *)
(* through its HTTP handler of src/app.py, and the calculations log of      *)
(* src/database.py that generate_signal appends to.                         *)
(*                                                                         *)
(* Numbers.  A float is a pair <<num, den>> with den >= 0: the rational     *)
(* num/den, and with den = 0 the non-finite values (<<1,0>> is +inf,        *)
(* <<-1,0>> is -inf, <<0,0>> is nan).  Arithmetic is exact, so float        *)
(* rounding is not part of the model.  Values of the transcendental         *)
(* functions the code calls (sin, the DFT, log10, the Butterworth design)   *)
(* are kept as unevaluated terms.                                           *)
(*                                                                         *)
(* Calls.  A call is one atomic step from pc = "idle" to pc = "done", which *)
(* leaves the arguments in `call` and the outcome in `ret` (a returned      *)
(* record or a raised exception); Respond is the handler handing the        *)
(* outcome to the client.                                                   *)
(*                                                                         *)
(* Threads.  SpecThreads is the server with several requests in progress:   *)
(* `workers` holds each thread's position, request and outcome, and         *)
(* `db_lock` the thread whose connection holds the write lock of the        *)
(* database file.  There the save of a calculation is a step of its own.    *)
(***************************************************************************)
EXTENDS Integers, Sequences, FiniteSets, TLC

VARIABLES pc, call, ret, log, workers, db_lock

vars == <<pc, call, ret, log, workers, db_lock>>

(***************************** bounds **************************************)
\* sample rates are 1..MaxRate (Hz)
MaxRate == 6
\* cutoff frequencies are -1..MaxCutoff (Hz)
MaxCutoff == 3
\* filter orders are 1..MaxOrder
MaxOrder == 2
\* the calculations log holds at most MaxLog records
MaxLog == 2
\* signal frequencies are 1..MaxFreq (Hz)
MaxFreq == 1
\* amplitudes are 1..MaxAmp
MaxAmp == 2
\* DC offsets are 0..MaxOffset
MaxOffset == 1
\* durations are k / DurDen seconds for k in 1..MaxDurNum
DurDen == 4
MaxDurNum == 6
\* compute_fft takes signals of 1..MaxFftLen samples
MaxFftLen == 8
\* whose DFT bins have the absolute values 0..MaxAbs
MaxAbs == 2
\* add_noise takes signals of 1..MaxNoiseLen samples
MaxNoiseLen == 2

\* resistances are 0..MaxResistance (ohm)
MaxResistance == 2
\* inductances and capacitances are (k / 2)^2 / (2 pi) for k in 0..MaxRoot
MaxRoot == 2
\* sweep frequencies are 2^e Hz for e in 0..MaxExp
MaxExp == 2
\* a sweep has 1..MaxPoints points
MaxPoints == 3

\* the requests served at the same time
MaxWorkers == 2

\* resistances of a lab run are 0..MaxLabResistance
MaxLabResistance == 2

(***************************** program constants ***************************)
\* snr_db=20, the default of add_noise
DefaultSnrDb == 20
\* the least whole snr_db at which 10**(snr_db / 10) overflows a float
MinOverflowSnrDb == 3083

\* threshold_db=-3, the default of bandwidth_analysis
DefaultThresholdDb == -3

\* tolerance_percent=5 of run_experiment_with_tolerance and api_lab_run
DefaultTolerancePercent == 5

(***************************** outcomes ************************************)
Return(value) == [kind |-> "return", value |-> value]

Raise(exc) == [kind |-> "raise", exc |-> exc]

NoCall == [op |-> "none"]

NoRet == [kind |-> "none"]

\* the threads that serve requests at the same time
Workers == 1..MaxWorkers

\* db_lock of a database file nobody writes to
NoWorker == 0

IdleWorker == [pc |-> "idle", call |-> NoCall, ret |-> NoRet]

HasError == "error" \in DOMAIN ret.value

(***************************** numbers *************************************)
\* a < b for two finite rationals
Less(a, b) == a[1] * b[2] < b[1] * a[2]

\* a = b as numbers, for two finite rationals
Same(a, b) == a[1] * b[2] = b[1] * a[2]

\* a - b for two finite rationals
Minus(a, b) == <<a[1] * b[2] - b[1] * a[2], a[2] * b[2]>>

\* a + b for two finite rationals
Plus(a, b) == <<a[1] * b[2] + b[1] * a[2], a[2] * b[2]>>

\* a * b for two finite rationals
Times(a, b) == <<a[1] * b[1], a[2] * b[2]>>

RECURSIVE SumSq(_)
SumSq(s) == IF s = <<>> THEN 0 ELSE Head(s) * Head(s) + SumSq(Tail(s))

\* np.sqrt(np.mean(signal**2)) of integer samples, kept as the mean square
rms(signal) == [sqrt_of |-> <<SumSq(signal), Len(signal)>>]

(***************************** filter_signal *******************************)
FilterTypes == {"lowpass", "highpass", "bandpass", "bandstop"}

\* the tags a request can carry: the four supported ones and one that is not
FilterTags == FilterTypes \cup {"notch"}

SampleRates == 1..MaxRate

Cutoffs == (-1)..MaxCutoff

\* cutoff_freq is a scalar or a two-element list
CutoffShapes ==
    {[isList |-> FALSE, vals |-> <<c>>] : c \in Cutoffs}
    \cup {[isList |-> TRUE, vals |-> <<lo, hi>>] : lo \in Cutoffs, hi \in Cutoffs}

Orders == 1..MaxOrder

\* 3 * max(len(a), len(b)) of the Butterworth filter of this type and order
PadLen(filter_type, order) ==
    IF filter_type \in {"lowpass", "highpass"} THEN 3 * (order + 1)
    ELSE 3 * (2 * order + 1)

Ramp(n) == [i \in 1..n |-> i]

\* signals one sample long, and just too short and just long enough for
\* every filter the model designs
FilterSignalLens ==
    {1} \cup {PadLen(t, o) + d : t \in FilterTypes, o \in Orders, d \in {0, 1}}

FilterSignals == {Ramp(n) : n \in FilterSignalLens}

\* f / nyquist with nyquist = sample_rate / 2
Normalize(f, sample_rate) == <<2 * f, sample_rate>>

normalized_cutoff(cutoff_freq, sample_rate) ==
    [isList |-> cutoff_freq.isList,
     vals |-> [i \in 1..Len(cutoff_freq.vals) |->
                  Normalize(cutoff_freq.vals[i], sample_rate)]]

OutOfUnit_strict(f) == f[1] > f[2] \/ f[1] <= 0

\* f >= 1 or f <= 0
OutOfUnit(f) == f[1] >= f[2] \/ f[1] <= 0

\* the validation of the normalized cutoff, for a list and for a scalar
cutoff_rejected(nc) == \E i \in 1..Len(nc.vals) : OutOfUnit(nc.vals[i])

CutoffError(signal_data) ==
    [filtered_signal |-> signal_data,
     error |-> "Cutoff frequency must be between 0 and Nyquist frequency"]

UnknownFilterNoError(signal_data) == [filtered_signal |-> signal_data]

UnknownFilterError(signal_data) ==
    [filtered_signal |-> signal_data, error |-> "Unknown filter type"]

Design(order, Wn, btype, ntaps) ==
    [ok |-> TRUE, btype |-> btype, order |-> order, Wn |-> Wn, ntaps |-> ntaps]

\* scipy.signal.butter(order, Wn, btype): the outcomes of the call, a design
\* (b, a) with ntaps coefficients each or a ValueError.  A band edge pair
\* with low >= high is refused by recent scipy releases and designed (as a
\* meaningless filter) by older ones: either outcome is possible.
butter(order, Wn, btype) ==
    IF \E i \in 1..Len(Wn.vals) : Wn.vals[i][1] <= 0 \/ Wn.vals[i][1] >= Wn.vals[i][2]
    THEN {[ok |-> FALSE, exc |-> "ValueError"]}
    ELSE IF btype \in {"low", "high"}
    THEN IF Len(Wn.vals) # 1
         THEN {[ok |-> FALSE, exc |-> "ValueError"]}
         ELSE {Design(order, Wn, btype, order + 1)}
    ELSE IF Len(Wn.vals) # 2
         THEN {[ok |-> FALSE, exc |-> "ValueError"]}
         ELSE IF Less(Wn.vals[1], Wn.vals[2])
              THEN {Design(order, Wn, btype, 2 * order + 1)}
              ELSE {[ok |-> FALSE, exc |-> "ValueError"],
                    Design(order, Wn, btype, 2 * order + 1)}

\* scipy.signal.filtfilt(b, a, signal): a ValueError unless the signal is
\* longer than the padding of 3 * ntaps samples, else one output sample per
\* input sample
filtfilt(design, signal) ==
    IF Len(signal) <= 3 * design.ntaps
    THEN [ok |-> FALSE, exc |-> "ValueError"]
    ELSE [ok |-> TRUE, y |-> [i \in 1..Len(signal) |-> [filtfilt |-> i]]]

btype_of(filter_type) ==
    CASE filter_type = "lowpass" -> "low"
      [] filter_type = "highpass" -> "high"
      [] filter_type = "bandpass" -> "band"
      [] filter_type = "bandstop" -> "bandstop"

FilterResult(signal, filtered, filter_type, cutoff_freq, order) ==
    [filtered_signal |-> filtered,
     filter_type |-> filter_type,
     cutoff_frequency |-> cutoff_freq,
     order |-> order,
     original_rms |-> rms(signal),
     filtered_rms |-> [rms_of |-> "filtered_signal"]]

\* the Python object the 'filtered_signal' of a result refers to: the early
\* returns put the caller's signal_data itself into the result, the last
\* return the new list made by filtered.tolist()
filtered_signal_object(result) ==
    IF "error" \in DOMAIN result THEN "signal_data" ELSE "filtered.tolist()"

\* filter_signal with the filter type looked at before the cutoff
filter_signal_type_first(signal_data, sample_rate, filter_type, cutoff_freq, order) ==
    LET nc == normalized_cutoff(cutoff_freq, sample_rate)
    IN  IF filter_type \notin FilterTypes
        THEN {Return(UnknownFilterError(signal_data))}
        ELSE IF cutoff_rejected(nc)
        THEN {Return(CutoffError(signal_data))}
        ELSE {IF ~d.ok THEN Raise(d.exc)
              ELSE LET f == filtfilt(d, signal_data)
                   IN  IF ~f.ok THEN Raise(f.exc)
                       ELSE Return(FilterResult(signal_data, f.y, filter_type,
                                                cutoff_freq, order))
              : d \in butter(order, nc, btype_of(filter_type))}

\* the outcomes of filter_signal(signal_data, sample_rate, filter_type,
\* cutoff_freq, order)
filter_signal(signal_data, sample_rate, filter_type, cutoff_freq, order) ==
    LET nc == normalized_cutoff(cutoff_freq, sample_rate)
    IN  IF cutoff_rejected(nc)
        THEN {Return(CutoffError(signal_data))}
        ELSE IF filter_type \in FilterTypes
        THEN {IF ~d.ok THEN Raise(d.exc)
              ELSE LET f == filtfilt(d, signal_data)
                   IN  IF ~f.ok THEN Raise(f.exc)
                       ELSE Return(FilterResult(signal_data, f.y, filter_type,
                                                cutoff_freq, order))
              : d \in butter(order, nc, btype_of(filter_type))}
        ELSE {Return(UnknownFilterError(signal_data))}

FilterSignal ==
    /\ pc = "idle"
    /\ \E signal_data \in FilterSignals, sample_rate \in SampleRates,
          filter_type \in FilterTags, cutoff_freq \in CutoffShapes,
          order \in Orders :
          /\ call' = [op |-> "filter_signal", signal_data |-> signal_data,
                      sample_rate |-> sample_rate, filter_type |-> filter_type,
                      cutoff_freq |-> cutoff_freq, order |-> order]
          /\ ret' \in filter_signal(signal_data, sample_rate, filter_type,
                                   cutoff_freq, order)
    /\ pc' = "done"
    /\ UNCHANGED log
    /\ UNCHANGED <<workers, db_lock>>

(***************************** the calculations log ************************)
\* a save that writes its record over the table instead of inserting it
save_calculation_overwrite(module, input_data) ==
    <<[module |-> module, input_data |-> input_data, warnings |-> ""]>>

\* save_calculation(module, input_data, result, warnings): one INSERT into
\* the calculations table.  The record is kept by its module and the names
\* of the inputs it records; the values of the columns are text made from
\* the call's arguments and result.
save_calculation(module, input_data) ==
    Append(log, [module |-> module, input_data |-> input_data, warnings |-> ""])

(***************************** generate_signal *****************************)
Shapes == {"sine", "cosine", "square", "sawtooth", "triangle"}

\* the tags a request can carry: the five supported ones, one that is not,
\* and the tag the code itself writes for an unsupported one
ShapeTags == Shapes \cup {"pulse", "unknown"}

Frequencies == 1..MaxFreq

Amplitudes == 1..MaxAmp

Phases == {0, 90}

Offsets == 0..MaxOffset

Durations == {<<k, DurDen>> : k \in 1..MaxDurNum}

\* int(sample_rate * duration): the product cut to an integer
sample_count(sample_rate, duration) ==
    (sample_rate * duration[1]) \div duration[2]

\* np.linspace(0, stop, num): num points from 0 to stop, both ends included
linspace(stop, num) ==
    [j \in 1..num |->
        IF num = 1 THEN <<0, 1>> ELSE <<(j - 1) * stop[1], (num - 1) * stop[2]>>]

\* amplitude * f(2 pi frequency t + radians(phase)) + dc_offset, f the unit
\* waveform of the shape: the term, not its value
Sample(shape, frequency, amplitude, phase, dc_offset, t) ==
    [shape |-> shape, frequency |-> frequency, amplitude |-> amplitude,
     phase |-> phase, dc_offset |-> dc_offset, t |-> t]

\* one sample of np.zeros_like(t)
ZeroSample(t) == Sample("zeros", 0, 0, 0, 0, t)

IsZero(sample) == sample.amplitude = 0 /\ sample.dc_offset = 0

AllZero(signal) == \A i \in 1..Len(signal) : IsZero(signal[i])

\* float(np.sqrt(np.mean(signal**2))) of a generated signal: 0 for the zero
\* signal, else a term
wave_rms(signal) ==
    IF AllZero(signal) THEN [q |-> <<0, 1>>] ELSE [term |-> "rms"]

\* float(np.max(signal) - np.min(signal))
wave_peak_to_peak(signal) ==
    IF AllZero(signal) THEN [q |-> <<0, 1>>] ELSE [term |-> "peak_to_peak"]

\* generate_signal(signal_type, frequency, amplitude, duration, sample_rate,
\* phase, dc_offset): its outcome and the log it leaves.  With no sample at
\* all, np.max(signal) raises before anything is saved.
generate_signal(signal_type, frequency, amplitude, duration, sample_rate, phase, dc_offset) ==
    LET t == linspace(duration, sample_count(sample_rate, duration))
        signal == IF signal_type \in Shapes
                  THEN [j \in 1..Len(t) |->
                           Sample(signal_type, frequency, amplitude, phase,
                                  dc_offset, t[j])]
                  ELSE [j \in 1..Len(t) |-> ZeroSample(t[j])]
        tag == IF signal_type \in Shapes THEN signal_type ELSE "unknown"
        result == [time |-> t,
                   signal |-> signal,
                   signal_type |-> tag,
                   frequency |-> frequency,
                   amplitude |-> amplitude,
                   sample_rate |-> sample_rate,
                   duration |-> duration,
                   rms |-> wave_rms(signal),
                   peak_to_peak |-> wave_peak_to_peak(signal)]
    IN  IF Len(t) = 0
        THEN [ret |-> Raise("ValueError"), log |-> log]
        ELSE [ret |-> Return(result),
              log |-> save_calculation("signal_generator",
                                      {"type", "frequency", "amplitude"})]

GenerateSignal ==
    /\ pc = "idle"
    /\ Len(log) < MaxLog
    /\ \E signal_type \in ShapeTags, frequency \in Frequencies,
          amplitude \in Amplitudes, duration \in Durations,
          sample_rate \in SampleRates, phase \in Phases, dc_offset \in Offsets :
          LET out == generate_signal(signal_type, frequency, amplitude, duration,
                                     sample_rate, phase, dc_offset)
          IN  /\ call' = [op |-> "generate_signal", signal_type |-> signal_type,
                          frequency |-> frequency, amplitude |-> amplitude,
                          duration |-> duration, sample_rate |-> sample_rate,
                          phase |-> phase, dc_offset |-> dc_offset]
              /\ ret' = out.ret
              /\ log' = out.log
    /\ pc' = "done"
    /\ UNCHANGED <<workers, db_lock>>

(***************************** compute_fft *********************************)
\* A signal enters compute_fft only through its length n and the DFT of its
\* Hann-windowed samples, fft(signal * np.hanning(n)).  The DFT's values are
\* irrational, so the signal is given here by n and by abs(fft_result[k]) for
\* the bins k = 0 .. n // 2 - 1 the code keeps (bin k at position k + 1).
FftSignals ==
    UNION {{[n |-> n, abs_fft |-> a] : a \in [1..(n \div 2) -> 0..MaxAbs]}
           : n \in 1..MaxFftLen}

\* fftfreq(n, 1 / sample_rate)[:n // 2]: bin k is k / (n * (1 / sample_rate))
positive_freqs(n, sample_rate) ==
    [p \in 1..(n \div 2) |-> <<(p - 1) * sample_rate, n>>]

\* np.abs(fft_result[:n // 2]) * 2 / n
magnitude(signal_data) ==
    [p \in 1..(signal_data.n \div 2) |->
        <<2 * signal_data.abs_fft[p], signal_data.n>>]

\* np.argmax(m): the 0-based index of the first largest entry
argmax(m) ==
    CHOOSE i \in 0..(Len(m) - 1) :
        /\ \A j \in 0..(Len(m) - 1) : ~Less(m[i + 1], m[j + 1])
        /\ \A j \in 0..(i - 1) : Less(m[j + 1], m[i + 1])

dominant_idx_with_dc(m) == argmax(m)

\* np.argmax(magnitude[1:]) + 1
dominant_idx(m) == argmax(Tail(m)) + 1

\* compute_fft(signal_data, sample_rate).  np.argmax raises a ValueError on
\* the empty magnitude[1:] of a signal shorter than 4 samples.
compute_fft(signal_data, sample_rate) ==
    LET n == signal_data.n
        freqs == positive_freqs(n, sample_rate)
        mag == magnitude(signal_data)
    IN  IF Len(mag) <= 1
        THEN Raise("ValueError")
        ELSE Return(
               [frequencies |-> freqs,
                magnitude |-> mag,
                magnitude_db |-> [p \in 1..Len(mag) |-> [db_of |-> mag[p]]],
                phase |-> [p \in 1..Len(mag) |-> [angle_of_bin |-> p - 1]],
                dominant_frequency |-> freqs[dominant_idx(mag) + 1],
                dominant_magnitude |-> mag[dominant_idx(mag) + 1],
                dc_component |-> mag[1]])

ComputeFFT ==
    /\ pc = "idle"
    /\ \E signal_data \in FftSignals, sample_rate \in SampleRates :
          /\ call' = [op |-> "compute_fft", signal_data |-> signal_data,
                      sample_rate |-> sample_rate]
          /\ ret' = compute_fft(signal_data, sample_rate)
    /\ pc' = "done"
    /\ UNCHANGED log
    /\ UNCHANGED <<workers, db_lock>>

(***************************** bandwidth_analysis **************************)
\* thresholds in dB: two below the peak, the peak itself, and one above it
ThresholdDbs == {-10, DefaultThresholdDb, 0, 3}

\* 10 ** (threshold_db / 20), the ratio of two magnitudes threshold_db apart,
\* to four digits.  The magnitudes of one spectrum are in the ratios a / b
\* of two small whole numbers, and no such ratio lies between a value given
\* here and the exact one.
amplitude_ratio(threshold_db) ==
    CASE threshold_db = -10 -> <<3162, 10000>>
      [] threshold_db = -3 -> <<7079, 10000>>
      [] threshold_db = 0 -> <<1, 1>>
      [] threshold_db = 3 -> <<14125, 10000>>

\* x >= y + threshold_db, for x = 20 * np.log10(a + 1e-10) and
\* y = 20 * np.log10(b + 1e-10) kept as [db_of |-> a] and [db_of |-> b]:
\* a + 1e-10 >= (b + 1e-10) * ratio.  The magnitudes a and b are fractions
\* of denominators far below 1e10, so with ratio <= 1 this is a >= b * ratio
\* and with ratio > 1 it is a > b * ratio.
db_geq(x, y, threshold_db) ==
    LET ratio == amplitude_ratio(threshold_db)
    IN  IF Less(<<1, 1>>, ratio)
        THEN Less(Times(y.db_of, ratio), x.db_of)
        ELSE ~Less(x.db_of, Times(y.db_of, ratio))

\* np.max(magnitude_db)
db_max(magnitude_db) ==
    magnitude_db[CHOOSE p \in 1..Len(magnitude_db) :
                    \A r \in 1..Len(magnitude_db) :
                        ~Less(magnitude_db[p].db_of, magnitude_db[r].db_of)]

\* the bins of the run of qualifying bins that holds the first peak bin
above_threshold_contiguous(magnitude_db, threshold_db) ==
    LET top == db_max(magnitude_db)
        ok(p) == db_geq(magnitude_db[p], top, threshold_db)
        peak == CHOOSE p \in 1..Len(magnitude_db) :
                    /\ magnitude_db[p] = top
                    /\ \A r \in 1..(p - 1) : magnitude_db[r] # top
    IN  {p \in 1..Len(magnitude_db) :
            \A r \in 1..Len(magnitude_db) :
                ((p <= r /\ r <= peak) \/ (peak <= r /\ r <= p)) => ok(r)}

\* the bins strictly above the threshold: a bin is exactly at the threshold
\* only with threshold_db = 0, where the bins at it are the peak bins
above_threshold_strict(magnitude_db, threshold_db) ==
    {p \in 1..Len(magnitude_db) :
        /\ db_geq(magnitude_db[p], db_max(magnitude_db), threshold_db)
        /\ threshold_db # 0}

\* above_threshold = magnitude_db >= threshold, threshold = max_magnitude +
\* threshold_db: the positions of the bins it marks
above_threshold(magnitude_db, threshold_db) ==
    {p \in 1..Len(magnitude_db) :
        db_geq(magnitude_db[p], db_max(magnitude_db), threshold_db)}

\* np.min(freq_above)
freq_min(frequencies, above) ==
    frequencies[CHOOSE p \in above :
                   \A r \in above : ~Less(frequencies[r], frequencies[p])]

\* np.max(freq_above)
freq_max(frequencies, above) ==
    frequencies[CHOOSE p \in above :
                   \A r \in above : ~Less(frequencies[p], frequencies[r])]

center_of_difference(lower_freq, upper_freq) ==
    Times(Minus(upper_freq, lower_freq), <<1, 2>>)

\* (upper_freq + lower_freq) / 2
center_of(lower_freq, upper_freq) ==
    Times(Plus(upper_freq, lower_freq), <<1, 2>>)

\* bandwidth_analysis(signal_data, sample_rate, threshold_db): its outcome and
\* the log it leaves.  An exception of compute_fft passes through it before
\* anything is saved.
bandwidth_analysis(signal_data, sample_rate, threshold_db) ==
    LET fft_result == compute_fft(signal_data, sample_rate)
    IN  IF fft_result.kind = "raise"
        THEN [ret |-> fft_result, log |-> log]
        ELSE
          LET magnitude_db == fft_result.value.magnitude_db
              frequencies == fft_result.value.frequencies
              above == above_threshold(magnitude_db, threshold_db)
              any == above # {}
              lower_freq == IF any THEN freq_min(frequencies, above) ELSE <<0, 1>>
              upper_freq == IF any THEN freq_max(frequencies, above) ELSE <<0, 1>>
              result == [lower_frequency |-> lower_freq,
                         upper_frequency |-> upper_freq,
                         bandwidth |-> IF any THEN Minus(upper_freq, lower_freq)
                                       ELSE <<0, 1>>,
                         center_frequency |-> IF any
                                              THEN center_of(lower_freq, upper_freq)
                                              ELSE <<0, 1>>,
                         threshold_db |-> threshold_db,
                         peak_magnitude_db |-> db_max(magnitude_db)]
          IN  [ret |-> Return(result),
               log |-> save_calculation("bandwidth_analysis",
                                        {"sample_rate", "threshold_db"})]

BandwidthAnalysis ==
    /\ pc = "idle"
    /\ Len(log) < MaxLog
    /\ \E signal_data \in FftSignals, sample_rate \in SampleRates,
          threshold_db \in ThresholdDbs :
          LET out == bandwidth_analysis(signal_data, sample_rate, threshold_db)
          IN  /\ call' = [op |-> "bandwidth_analysis", signal_data |-> signal_data,
                          sample_rate |-> sample_rate, threshold_db |-> threshold_db]
              /\ ret' = out.ret
              /\ log' = out.log
    /\ pc' = "done"
    /\ UNCHANGED <<workers, db_lock>>

(***************************** add_noise ***********************************)
NoiseTypes == {"gaussian", "uniform", "pink"}

\* the tags a request can carry: the three supported ones and one that is not
NoiseTags == NoiseTypes \cup {"brown"}

\* input samples of add_noise, and the values a random draw takes, in units
\* of the noise scale
Levels == (-1)..1

NoiseSignals == UNION {[1..n -> Levels] : n \in 1..MaxNoiseLen}

\* target SNRs: 0 dB, the default, and the two around the least whole number
\* of dB at which 10**(snr_db / 10) leaves the range of a float
SnrValues == {0, DefaultSnrDb, MinOverflowSnrDb - 1, MinOverflowSnrDb}

PosInf == <<1, 0>>

NegInf == <<-1, 0>>

NaN == <<0, 0>>

IsNaN(x) == x[2] = 0 /\ x[1] = 0

IsInf(x) == x[2] = 0 /\ x[1] # 0

Zeros(n) == [i \in 1..n |-> <<0, 1>>]

Draws(n) == {[i \in 1..n |-> <<a[i], 1>>] : a \in [1..n -> Levels]}

\* the noise vectors the branch of noise_type can leave, for a noise power
\* that is zero (an all-zero signal) or positive.  A normal or uniform draw
\* of scale 0 is 0.  The pink branch divides by np.std(noise), which is 0 for
\* a single sample: the quotient is then nan or an infinity.
noise_vectors(noise_type, n, noise_power_is_zero) ==
    IF noise_type \in {"gaussian", "uniform"}
    THEN IF noise_power_is_zero THEN {Zeros(n)} ELSE Draws(n)
    ELSE IF noise_type = "pink"
    THEN IF n = 1
         THEN IF noise_power_is_zero THEN {<<NaN>>}
              ELSE {<<PosInf>>, <<NegInf>>, <<NaN>>}
         ELSE IF noise_power_is_zero THEN {Zeros(n)}
              ELSE {d \in Draws(n) : \E i \in 1..n : d[i] # d[1]}
    ELSE {Zeros(n)}

\* signal[i] + noise[i]
noisy_sample(s, x) == IF x[2] = 0 THEN x ELSE <<s * x[2] + x[1], x[2]>>

RECURSIVE SumSqQ(_)
SumSqQ(s) == IF s = <<>> THEN 0 ELSE Head(s)[1] * Head(s)[1] + SumSqQ(Tail(s))

\* np.mean(noise**2)
mean_sq(noise) ==
    IF \E i \in 1..Len(noise) : IsNaN(noise[i]) THEN NaN
    ELSE IF \E i \in 1..Len(noise) : IsInf(noise[i]) THEN PosInf
    ELSE <<SumSqQ(noise), Len(noise)>>

\* 10 * np.log10(signal_power / np.mean(noise**2)) if np.mean(noise**2) > 0
\* else float('inf')
actual_snr(signal, noise) ==
    LET m == mean_sq(noise)
    IN  IF IsNaN(m) \/ (m[2] > 0 /\ m[1] = 0) THEN [q |-> PosInf]
        ELSE IF IsInf(m) \/ SumSq(signal) = 0 THEN [q |-> NegInf]
        ELSE [db_of |-> <<SumSq(signal), m[1]>>]

\* float(np.sqrt(np.mean(noise**2)))
noise_rms(noise) ==
    LET m == mean_sq(noise)
    IN  IF m[2] = 0 \/ m[1] = 0 THEN [q |-> m] ELSE [sqrt_of |-> m]

\* 10**(snr_db / 10) raises OverflowError from snr_db / 10 > 308.25
snr_linear_overflows(snr_db) == snr_db >= MinOverflowSnrDb

\* the outcomes of add_noise(signal_data, noise_type, snr_db)
add_noise(signal_data, noise_type, snr_db) ==
    IF snr_linear_overflows(snr_db)
    THEN {Raise("OverflowError")}
    ELSE {Return([noisy_signal |->
                      [i \in 1..Len(signal_data) |->
                          noisy_sample(signal_data[i], noise[i])],
                  noise |-> noise,
                  noise_type |-> noise_type,
                  target_snr_db |-> snr_db,
                  actual_snr_db |-> actual_snr(signal_data, noise),
                  noise_rms |-> noise_rms(noise)])
          : noise \in noise_vectors(noise_type, Len(signal_data),
                                    SumSq(signal_data) = 0)}

\* the Python object the 'noisy_signal' of a result refers to
noisy_signal_object(result) == "noisy_signal.tolist()"

AddNoise ==
    /\ pc = "idle"
    /\ \E signal_data \in NoiseSignals, noise_type \in NoiseTags,
          snr_db \in SnrValues :
          /\ call' = [op |-> "add_noise", signal_data |-> signal_data,
                      noise_type |-> noise_type, snr_db |-> snr_db]
          /\ ret' \in add_noise(signal_data, noise_type, snr_db)
    /\ pc' = "done"
    /\ UNCHANGED log
    /\ UNCHANGED <<workers, db_lock>>

(***************************** frequency sweeps ****************************)
\* Units.  An inductance L and a capacitance C are held as the rationals
\* 2 pi L and 2 pi C, so that the reactances omega L = freq * (2 pi L) and
\* 1 / (omega C) = 1 / (freq * (2 pi C)) of a rational frequency are
\* rational.  The inputs are squares of rationals, and the sweeps are those
\* whose points are whole powers of two, so that every square root and every
\* point of np.logspace is a rational too.

\* an argument missing from the request: data.get(...) gives None
None == <<>>

Resistances == 0..MaxResistance

Reactives == {<<k * k, 4>> : k \in 0..MaxRoot}

RECURSIVE Pow2(_)
Pow2(e) == IF e = 0 THEN 1 ELSE 2 * Pow2(e - 1)

SweepFrequencies == {<<Pow2(e), 1>> : e \in 0..MaxExp}

\* np.log10(f) / np.log10(2) of a whole power of two
Log2(f) == CHOOSE e \in 0..MaxExp : Pow2(e) = f[1]

PointCounts == 1..MaxPoints

\* the sweeps (freq_start, freq_end, points) whose points are powers of two
Sweeps ==
    {sw \in [freq_start : SweepFrequencies, freq_end : SweepFrequencies,
             points : PointCounts] :
        \/ sw.points = 1
        \/ (Log2(sw.freq_end) - Log2(sw.freq_start)) % (sw.points - 1) = 0}

\* points exponents evenly spaced from the first, the last left out
logspace_open(freq_start, freq_end, points) ==
    [k \in 1..points |->
        <<Pow2(Log2(freq_start)
               + ((k - 1) * (Log2(freq_end) - Log2(freq_start))) \div points), 1>>]

\* np.logspace(np.log10(freq_start), np.log10(freq_end), points): points
\* exponents evenly spaced from the first to the last, both included; a
\* single point is the first
logspace(freq_start, freq_end, points) ==
    [k \in 1..points |->
        IF points = 1 THEN freq_start
        ELSE <<Pow2(Log2(freq_start)
                    + ((k - 1) * (Log2(freq_end) - Log2(freq_start)))
                          \div (points - 1)), 1>>]

Neg(a) == <<0 - a[1], a[2]>>

\* 1 / a for a rational a > 0
Inverse(a) == <<a[2], a[1]>>

Square(a) == Times(a, a)

\* the root of a whole square
Isqrt(n) == CHOOSE r \in 0..n : r * r = n

\* math.sqrt of the square of a rational
Sqrt(a) == <<Isqrt(a[1]), Isqrt(a[2])>>

\* omega * inductance
inductive_reactance(freq, inductance) == Times(freq, inductance)

\* 1 / (omega * capacitance)
capacitive_reactance(freq, capacitance) == Inverse(Times(freq, capacitance))

\* math.sqrt(resistance**2 + x_net**2), kept as its square
impedance_of(resistance, x_net) ==
    [sqrt_of |-> Plus(<<resistance * resistance, 1>>, Square(x_net))]

\* 20 * np.log10(resistance / impedance) for an impedance > 0: log10(1) is
\* 0, np.log10(0) is -inf, and any other value is kept as a term
gain_of(resistance, impedance) ==
    IF Same(impedance.sqrt_of, <<resistance * resistance, 1>>)
    THEN [q |-> <<0, 1>>]
    ELSE IF resistance = 0 THEN [q |-> NegInf]
    ELSE [db_of_root |-> [num |-> resistance * resistance,
                          den |-> impedance.sqrt_of]]

\* math.degrees(math.atan2(y, x)) for x >= 0: 0 on the positive x axis and
\* at the origin, +-90 on the y axis, and any other value is kept as a term
degrees_atan2(y, x) ==
    IF y[1] = 0 THEN [q |-> <<0, 1>>]
    ELSE IF x = 0 THEN [q |-> IF y[1] > 0 THEN <<90, 1>> ELSE <<-90, 1>>]
    ELSE [atan2_of |-> [y |-> y, x |-> x]]

\* 1 / (2 * math.pi * math.sqrt(inductance * capacitance))
resonant_freq_of(inductance, capacitance) ==
    Inverse(Sqrt(Times(inductance, capacitance)))

\* (1 / resistance) * math.sqrt(inductance / capacitance)
q_factor_of(resistance, inductance, capacitance) ==
    Times(<<1, resistance>>, Sqrt(Times(inductance, Inverse(capacitance))))

\* resonant_freq / q_factor if q_factor > 0 else float('inf')
bandwidth_of(resonant_freq, q_factor) ==
    IF q_factor[1] > 0 THEN Times(resonant_freq, Inverse(q_factor)) ELSE PosInf

net_reactance_sum(xl, xc) == Plus(xl, xc)

\* x_net = xl - xc
net_reactance(xl, xc) == Minus(xl, xc)

\* one turn of the loop of frequency_response
sweep_point(resistance, inductance, capacitance, freq) ==
    LET xl == IF inductance[1] > 0
              THEN inductive_reactance(freq, inductance) ELSE <<0, 1>>
        xc == IF capacitance[1] > 0
              THEN capacitive_reactance(freq, capacitance) ELSE <<0, 1>>
        x_net == net_reactance(xl, xc)
        impedance == impedance_of(resistance, x_net)
    IN  [impedance |-> impedance,
         gain_db |-> IF impedance.sqrt_of[1] > 0
                     THEN gain_of(resistance, impedance) ELSE [q |-> <<0, 1>>],
         phase |-> degrees_atan2(Neg(x_net), resistance)]

\* frequency_response(resistance, inductance, capacitance, freq_start,
\* freq_end, points).  A None inductance or capacitance fails the comparison
\* `> 0` with a TypeError; resistance = 0 fails 1 / resistance when the
\* resonance figures are computed.
frequency_response(resistance, inductance, capacitance, freq_start, freq_end, points) ==
    LET frequencies == logspace(freq_start, freq_end, points)
        at(k) == sweep_point(resistance, inductance, capacitance, frequencies[k])
        resonant == inductance[1] > 0 /\ capacitance[1] > 0
        resonant_freq == IF resonant
                         THEN resonant_freq_of(inductance, capacitance) ELSE None
        result == [frequencies |-> frequencies,
                   gains_db |-> [k \in 1..points |-> at(k).gain_db],
                   phases |-> [k \in 1..points |-> at(k).phase],
                   impedances |-> [k \in 1..points |-> at(k).impedance],
                   resonant_frequency |-> resonant_freq]
    IN  IF inductance = None \/ capacitance = None
        THEN Raise("TypeError")
        ELSE IF ~resonant
        THEN Return(result)
        ELSE IF resistance = 0
        THEN Raise("ZeroDivisionError")
        ELSE LET q_factor == q_factor_of(resistance, inductance, capacitance)
             IN  Return([frequencies |-> result.frequencies,
                         gains_db |-> result.gains_db,
                         phases |-> result.phases,
                         impedances |-> result.impedances,
                         resonant_frequency |-> resonant_freq,
                         q_factor |-> q_factor,
                         bandwidth |-> bandwidth_of(resonant_freq, q_factor)])

FrequencyResponse ==
    /\ pc = "idle"
    /\ \E resistance \in Resistances, inductance \in Reactives \cup {None},
          capacitance \in Reactives \cup {None}, sw \in Sweeps :
          /\ call' = [op |-> "frequency_response", resistance |-> resistance,
                      inductance |-> inductance, capacitance |-> capacitance,
                      freq_start |-> sw.freq_start, freq_end |-> sw.freq_end,
                      points |-> sw.points]
          /\ ret' = frequency_response(resistance, inductance, capacitance,
                                       sw.freq_start, sw.freq_end, sw.points)
    /\ pc' = "done"
    /\ UNCHANGED log
    /\ UNCHANGED <<workers, db_lock>>

\* one turn of the loop of run_rlc_resonance
rlc_point(resistance, inductance, capacitance, f) ==
    LET xl == inductive_reactance(f, inductance)
        xc == capacitive_reactance(f, capacitance)
        z == impedance_of(resistance, Minus(xl, xc))
    IN  [z |-> z,
         phase |-> degrees_atan2(Minus(xl, xc), resistance),
         gain_db |-> gain_of(resistance, z)]

\* resistance / (2 * math.sqrt(inductance / capacitance))
damping_of(resistance, inductance, capacitance) ==
    Times(<<resistance, 2>>, Inverse(Sqrt(Times(inductance, Inverse(capacitance)))))

response_type_of(damping) ==
    IF Less(damping, <<1, 1>>) THEN "Underdamped"
    ELSE IF Same(damping, <<1, 1>>) THEN "Critically Damped"
    ELSE "Overdamped"

\* run_rlc_resonance(resistance, inductance, capacitance, freq_start,
\* freq_end, points).  The resonance figures come first: an inductance or
\* capacitance of 0 fails 1 / (2 pi sqrt(L C)) or L / C, and resistance = 0
\* fails 1 / resistance.
run_rlc_resonance(resistance, inductance, capacitance, freq_start, freq_end, points) ==
    IF inductance[1] = 0 \/ capacitance[1] = 0 \/ resistance = 0
    THEN Raise("ZeroDivisionError")
    ELSE
      LET f0 == resonant_freq_of(inductance, capacitance)
          q_factor == q_factor_of(resistance, inductance, capacitance)
          bandwidth == bandwidth_of(f0, q_factor)
          damping == damping_of(resistance, inductance, capacitance)
          frequencies == logspace(freq_start, freq_end, points)
          at(k) == rlc_point(resistance, inductance, capacitance, frequencies[k])
      IN  Return([experiment |-> "RLC Resonance",
                  parameters |-> [resistance_ohm |-> resistance,
                                  inductance_h |-> inductance,
                                  capacitance_f |-> capacitance],
                  resonant_frequency_hz |-> f0,
                  q_factor |-> q_factor,
                  bandwidth_hz |-> bandwidth,
                  damping_factor |-> damping,
                  response_type |-> response_type_of(damping),
                  frequency_response |->
                      [frequencies |-> frequencies,
                       impedances |-> [k \in 1..points |-> at(k).z],
                       phases |-> [k \in 1..points |-> at(k).phase],
                       gains_db |-> [k \in 1..points |-> at(k).gain_db]]])

RunRlcResonance ==
    /\ pc = "idle"
    /\ \E resistance \in Resistances, inductance \in Reactives,
          capacitance \in Reactives, sw \in Sweeps :
          /\ call' = [op |-> "run_rlc_resonance", resistance |-> resistance,
                      inductance |-> inductance, capacitance |-> capacitance,
                      freq_start |-> sw.freq_start, freq_end |-> sw.freq_end,
                      points |-> sw.points]
          /\ ret' = run_rlc_resonance(resistance, inductance, capacitance,
                                      sw.freq_start, sw.freq_end, sw.points)
    /\ pc' = "done"
    /\ UNCHANGED log
    /\ UNCHANGED <<workers, db_lock>>

(***************************** signal_statistics ***************************)
\* the signals whose statistics are taken: the empty one and the inputs of
\* add_noise
StatSignals == {<<>>} \cup NoiseSignals

RECURSIVE Sum(_)
Sum(s) == IF s = <<>> THEN 0 ELSE Head(s) + Sum(Tail(s))

\* np.max(signal) and np.min(signal) of a non-empty signal
SeqMax(s) == CHOOSE x \in {s[i] : i \in 1..Len(s)} : \A i \in 1..Len(s) : s[i] <= x

SeqMin(s) == CHOOSE x \in {s[i] : i \in 1..Len(s)} : \A i \in 1..Len(s) : s[i] >= x

\* np.max(np.abs(signal))
peak_of(s) == SeqMax([i \in 1..Len(s) |-> IF s[i] < 0 THEN 0 - s[i] ELSE s[i]])

\* signal_statistics(signal_data).  np.mean of no samples is nan (with a
\* warning) and np.max of no samples raises a ValueError; nothing is saved.
signal_statistics(signal_data) ==
    IF Len(signal_data) = 0
    THEN Raise("ValueError")
    ELSE Return(
           [mean |-> <<Sum(signal_data), Len(signal_data)>>,
            std |-> [std_of |-> signal_data],
            rms |-> rms(signal_data),
            peak |-> peak_of(signal_data),
            peak_to_peak |-> SeqMax(signal_data) - SeqMin(signal_data),
            crest_factor |-> IF SumSq(signal_data) > 0
                             THEN [peak_over_rms |->
                                      <<peak_of(signal_data),
                                        rms(signal_data)>>]
                             ELSE [q |-> <<0, 1>>],
            min |-> SeqMin(signal_data),
            max |-> SeqMax(signal_data)])

SignalStatistics ==
    /\ pc = "idle"
    /\ \E signal_data \in StatSignals :
          /\ call' = [op |-> "signal_statistics", signal_data |-> signal_data]
          /\ ret' = signal_statistics(signal_data)
    /\ pc' = "done"
    /\ UNCHANGED log
    /\ UNCHANGED <<workers, db_lock>>

(***************************** the virtual lab *****************************)
\* A parameter of a lab request is a JSON value: a number, kept as the
\* rational [num |-> <<n, d>>], or something that is not a number, kept as
\* [text |-> ...].
Num(n) == [num |-> <<n, 1>>]

IsNumber(value) == "num" \in DOMAIN value

\* the experiments a request names: one the lab has and one it has not
Experiments == {"rc_transient", "warp_core"}

\* the parameters of an RC transient run: resistances from 0, one
\* capacitance, and voltages that are a number, zero or not a number
LabParameters ==
    {[resistance |-> Num(r), capacitance |-> Num(1), voltage |-> v] :
        r \in 0..MaxLabResistance,
        v \in {Num(0), Num(1), [text |-> "5V"]}}

TolerancePercents == {0, DefaultTolerancePercent, 2 * DefaultTolerancePercent}

\* values of np.random.uniform(-1, 1): the lower end, the middle and one
\* inside the upper half
UniformDraws == {<<-1, 1>>, <<0, 1>>, <<1, 2>>}

\* add_tolerance_error(value, tolerance_percent) for the draw u:
\* value + value * (tolerance_percent / 100) * u
add_tolerance_error(value, tolerance_percent, u) ==
    [num |-> Plus(value.num,
                  Times(Times(value.num, <<tolerance_percent, 100>>), u))]

\* the loop of run_experiment_with_tolerance: the dicts params_with_error it
\* can build, one draw for every numeric non-zero parameter
params_with_error(params, tolerance_percent) ==
    {[key \in DOMAIN params |->
        IF IsNumber(params[key]) /\ params[key].num[1] # 0
        THEN add_tolerance_error(params[key], tolerance_percent, draw[key])
        ELSE params[key]]
     : draw \in [DOMAIN params -> UniformDraws]}

\* run_rc_transient(resistance, capacitance, voltage).  A voltage that is not
\* a number cannot be multiplied (TypeError), and voltage / resistance of a
\* zero resistance is a ZeroDivisionError; the curves are kept by name.
run_rc_transient(kwargs) ==
    IF ~IsNumber(kwargs.voltage) THEN Raise("TypeError")
    ELSE IF kwargs.resistance.num[1] = 0 THEN Raise("ZeroDivisionError")
    ELSE Return(
           [experiment |-> "RC Transient Response",
            parameters |-> [resistance_ohm |-> kwargs.resistance,
                            capacitance_f |-> kwargs.capacitance,
                            voltage_v |-> kwargs.voltage],
            time_constant_s |->
                Times(kwargs.resistance.num, kwargs.capacitance.num),
            charging |-> [curve |-> "charging"],
            discharging |-> [curve |-> "discharging"]])

UnknownExperiment == [error |-> "Unknown experiment"]

\* result with the three entries the tolerance run adds to it
with_tolerance_record(result, tolerance_percent, actual, params) ==
    [experiment |-> result.experiment,
     parameters |-> result.parameters,
     time_constant_s |-> result.time_constant_s,
     charging |-> result.charging,
     discharging |-> result.discharging,
     tolerance_applied |-> tolerance_percent,
     actual_parameters |-> actual,
     nominal_parameters |-> params]

\* the outcomes of run_experiment_with_tolerance(experiment_name, params,
\* tolerance_percent)
run_experiment_with_tolerance(experiment_name, params, tolerance_percent) ==
    {IF experiment_name = "rc_transient"
     THEN LET result == run_rc_transient(actual)
          IN  IF result.kind = "raise" THEN result
              ELSE Return(with_tolerance_record(result.value, tolerance_percent,
                                                actual, params))
     ELSE Return(UnknownExperiment)
     : actual \in params_with_error(params, tolerance_percent)}

\* the outcomes of api_lab_run for the request data: a response with its
\* status code, or the exception of the experiment
api_lab_run(experiment, params, with_tolerance, tolerance_percent) ==
    IF with_tolerance
    THEN {IF result.kind = "raise" THEN result
          ELSE Return([status |-> 200, body |-> [result |-> result.value]])
          : result \in run_experiment_with_tolerance(experiment, params,
                                                      tolerance_percent)}
    ELSE IF experiment = "rc_transient"
    THEN LET result == run_rc_transient(params)
         IN  {IF result.kind = "raise" THEN result
              ELSE Return([status |-> 200, body |-> [result |-> result.value]])}
    ELSE {Return([status |-> 400, body |-> UnknownExperiment])}

LabRun ==
    /\ pc = "idle"
    /\ \E experiment \in Experiments, params \in LabParameters,
          with_tolerance \in BOOLEAN, tolerance_percent \in TolerancePercents :
          /\ call' = [op |-> "api_lab_run", experiment |-> experiment,
                      parameters |-> params, with_tolerance |-> with_tolerance,
                      tolerance_percent |-> tolerance_percent]
          /\ ret' \in api_lab_run(experiment, params, with_tolerance,
                                  tolerance_percent)
    /\ pc' = "done"
    /\ UNCHANGED log
    /\ UNCHANGED <<workers, db_lock>>

(***************************** requests served at once *********************)
\* app.run serves every request in a thread of its own.  Each thread runs
\* its operation on its own arguments; the two operations that save open the
\* one database file electrohub.db, each through a connection of its own.

\* the requests the threads serve: one of each operation that saves, and one
\* that does not
ThreadRequests ==
    {[op |-> "generate_signal", signal_type |-> "sine", frequency |-> 1,
      amplitude |-> 1, duration |-> <<DurDen, DurDen>>, sample_rate |-> 1,
      phase |-> 0, dc_offset |-> 0],
     [op |-> "bandwidth_analysis",
      signal_data |-> [n |-> 4, abs_fft |-> <<0, 1>>],
      sample_rate |-> 1, threshold_db |-> DefaultThresholdDb],
     [op |-> "compute_fft", signal_data |-> [n |-> 4, abs_fft |-> <<0, 1>>],
      sample_rate |-> 1]}

\* what the operation of a request returns or raises
result_of(request) ==
    CASE request.op = "generate_signal" ->
           generate_signal(request.signal_type, request.frequency,
                           request.amplitude, request.duration,
                           request.sample_rate, request.phase,
                           request.dc_offset).ret
      [] request.op = "bandwidth_analysis" ->
           bandwidth_analysis(request.signal_data, request.sample_rate,
                              request.threshold_db).ret
      [] request.op = "compute_fft" ->
           compute_fft(request.signal_data, request.sample_rate)

\* the operations that end in save_calculation
saves(request) == request.op \in {"generate_signal", "bandwidth_analysis"}

\* the log after the save_calculation of the request's operation
saved_by(request) ==
    IF request.op = "generate_signal"
    THEN save_calculation("signal_generator", {"type", "frequency", "amplitude"})
    ELSE save_calculation("bandwidth_analysis", {"sample_rate", "threshold_db"})

\* threads that have a save ahead of them or under way
Saving == {w \in Workers : workers[w].pc \in {"computed", "waiting", "writing"}}

\* a thread takes a request and computes the result of its operation; an
\* operation that saves has its save_calculation call still ahead
Begin(w) ==
    /\ workers[w].pc = "idle"
    /\ \E request \in ThreadRequests :
          LET result == result_of(request)
              to_save == saves(request) /\ result.kind = "return"
          IN  /\ to_save => Len(log) + Cardinality(Saving) < MaxLog
              /\ workers' = [workers EXCEPT ![w] =
                                [pc |-> IF to_save THEN "computed" ELSE "done",
                                 call |-> request,
                                 ret |-> result]]
    /\ UNCHANGED <<pc, call, ret, log, db_lock>>

\* cursor.execute(INSERT) with the database free: the connection takes the
\* write lock of the file and holds it until its commit
Insert(w) ==
    /\ workers[w].pc \in {"computed", "waiting"}
    /\ db_lock = NoWorker
    /\ db_lock' = w
    /\ workers' = [workers EXCEPT ![w].pc = "writing"]
    /\ UNCHANGED <<pc, call, ret, log>>

\* cursor.execute(INSERT) while another connection holds the write lock:
\* SQLITE_BUSY, and the thread sleeps in the busy handler
Wait(w) ==
    /\ workers[w].pc = "computed"
    /\ db_lock \notin {NoWorker, w}
    /\ workers' = [workers EXCEPT ![w].pc = "waiting"]
    /\ UNCHANGED <<pc, call, ret, log, db_lock>>

\* the lock is still held when the timeout of sqlite3.connect (5 seconds) has
\* passed: sqlite3.OperationalError, 'database is locked'
Timeout(w) ==
    /\ workers[w].pc = "waiting"
    /\ db_lock \notin {NoWorker, w}
    /\ workers' = [workers EXCEPT ![w].pc = "done",
                                  ![w].ret = Raise("OperationalError")]
    /\ UNCHANGED <<pc, call, ret, log, db_lock>>

\* conn.commit() and conn.close(): the row is in the table and the lock is
\* free; the operation returns its result
Commit(w) ==
    /\ workers[w].pc = "writing"
    /\ log' = saved_by(workers[w].call)
    /\ db_lock' = NoWorker
    /\ workers' = [workers EXCEPT ![w].pc = "done"]
    /\ UNCHANGED <<pc, call, ret>>

\* the handler's response is sent and the thread ends
Finish(w) ==
    /\ workers[w].pc = "done"
    /\ workers' = [workers EXCEPT ![w] = IdleWorker]
    /\ UNCHANGED <<pc, call, ret, log, db_lock>>

NextThreads ==
    \E w \in Workers :
        Begin(w) \/ Insert(w) \/ Wait(w) \/ Timeout(w) \/ Commit(w) \/ Finish(w)

(***************************** the handlers ********************************)
\* jsonify({'result': result}), or the error response for a raised exception
Respond ==
    /\ pc = "done"
    /\ pc' = "idle"
    /\ call' = NoCall
    /\ ret' = NoRet
    /\ UNCHANGED log
    /\ UNCHANGED <<workers, db_lock>>

Init ==
    /\ pc = "idle"
    /\ call = NoCall
    /\ ret = NoRet
    /\ log = <<>>
    /\ workers = [w \in Workers |-> IdleWorker]
    /\ db_lock = NoWorker

SpecFilter == Init /\ [][FilterSignal \/ Respond]_vars

SpecGenerate == Init /\ [][GenerateSignal \/ Respond]_vars

SpecFFT == Init /\ [][ComputeFFT \/ Respond]_vars

SpecNoise == Init /\ [][AddNoise \/ Respond]_vars

SpecBandwidth == Init /\ [][BandwidthAnalysis \/ Respond]_vars

SpecSweep == Init /\ [][FrequencyResponse \/ RunRlcResonance \/ Respond]_vars

SpecLab == Init /\ [][LabRun \/ Respond]_vars

SpecThreads == Init /\ [][NextThreads]_vars

Next ==
    \/ GenerateSignal
    \/ ComputeFFT
    \/ BandwidthAnalysis
    \/ AddNoise
    \/ SignalStatistics
    \/ FilterSignal
    \/ FrequencyResponse
    \/ RunRlcResonance
    \/ LabRun
    \/ Respond

Spec == Init /\ [][Next]_vars

(***************************** claims: filter_signal ***********************)
FilterCall == pc = "done" /\ call.op = "filter_signal"

\* some cutoff value is 0 or negative, or at or above sample_rate / 2
CutoffOutOfRange ==
    \E i \in 1..Len(call.cutoff_freq.vals) :
        \/ call.cutoff_freq.vals[i] <= 0
        \/ 2 * call.cutoff_freq.vals[i] >= call.sample_rate

IsErrorResult == ret.kind = "return" /\ HasError

\* C1: whatever the filter type tag and the signal, a filter_signal call whose
\* cutoff (the scalar, or any element of the pair) is <= 0 or >= Nyquist
\* returns a result with an `error` field whose `filtered_signal` is the input
\* signal, sample for sample.
C1_OutOfRangeCutoffKeepsSignal ==
    (FilterCall /\ CutoffOutOfRange)
        => /\ IsErrorResult
           /\ ret.value.filtered_signal = call.signal_data

C1_Witness ==
    /\ FilterCall
    /\ call.filter_type = "bandpass"
    /\ call.cutoff_freq.isList
    /\ call.cutoff_freq.vals[1] = 1
    /\ 2 * call.cutoff_freq.vals[2] = call.sample_rate
    /\ Len(call.signal_data) > 1
    /\ IsErrorResult
    /\ ret.value.filtered_signal = call.signal_data

\* C2: every filter_signal call on a non-empty signal at a positive sample
\* rate ends in a returned record (a filtered result or an error result),
\* never in a raised exception.
C2_FilterNeverRaises == FilterCall => ret.kind = "return"

\* the cutoff is a pair with low < high, both strictly between 0 and Nyquist
ValidBandCutoff ==
    /\ call.cutoff_freq.isList
    /\ Len(call.cutoff_freq.vals) = 2
    /\ call.cutoff_freq.vals[1] < call.cutoff_freq.vals[2]
    /\ ~CutoffOutOfRange

\* C3: for bandpass and bandstop, a request comes back without an `error`
\* field only if its cutoff is a pair with low < high, both strictly between
\* 0 and Nyquist; a scalar cutoff or a pair with low >= high comes back as an
\* error result.
C3_BandCutoffValidated ==
    (FilterCall /\ call.filter_type \in {"bandpass", "bandstop"})
        => /\ (ret.kind = "return" /\ ~HasError) => ValidBandCutoff
           /\ ~ValidBandCutoff => IsErrorResult

(***************************** claims: generate_signal *********************)
GenerateCall == pc = "done" /\ call.op = "generate_signal"

IsZeroNumber(x) == "q" \in DOMAIN x /\ x.q[1] = 0 /\ x.q[2] > 0

\* C5: generate_signal with a shape tag outside the five supported ones does
\* not fail: it returns an all-zero signal as long as the time axis, with
\* signal_type "unknown", rms 0 and peak_to_peak 0; with a supported tag the
\* returned signal_type is the tag given.
C5_UnknownShapeGivesZeroSignal ==
    /\ (GenerateCall /\ call.signal_type \notin Shapes)
          => /\ ret.kind = "return"
             /\ AllZero(ret.value.signal)
             /\ Len(ret.value.signal) = Len(ret.value.time)
             /\ ret.value.signal_type = "unknown"
             /\ IsZeroNumber(ret.value.rms)
             /\ IsZeroNumber(ret.value.peak_to_peak)
    /\ (GenerateCall /\ call.signal_type \in Shapes /\ ret.kind = "return")
          => ret.value.signal_type = call.signal_type

\* round(p / q) as Python rounds: to the nearest integer, a tie to the even one
Round(p, q) ==
    LET fl == p \div q
        r == p % q
    IN  IF 2 * r < q THEN fl
        ELSE IF 2 * r > q THEN fl + 1
        ELSE IF fl % 2 = 0 THEN fl ELSE fl + 1

\* C7: for every supported shape and every positive sample rate and duration,
\* the result generate_signal returns holds exactly
\* round(sample_rate * duration) samples, and `time` and `signal` both have
\* that length.
C7_SampleCountIsRounded ==
    (GenerateCall /\ call.signal_type \in Shapes /\ ret.kind = "return")
        => /\ Len(ret.value.signal)
                 = Round(call.sample_rate * call.duration[1], call.duration[2])
           /\ Len(ret.value.time) = Len(ret.value.signal)

\* C8: the time axis generate_signal returns starts at 0, steps by exactly
\* 1 / sample_rate, and stays strictly below duration up to its last entry.
C8_TimeAxisHalfOpen ==
    (GenerateCall /\ ret.kind = "return")
        => LET t == ret.value.time
           IN  /\ Same(t[1], <<0, 1>>)
               /\ \A i \in 1..(Len(t) - 1) :
                     Same(Minus(t[i + 1], t[i]), <<1, call.sample_rate>>)
               /\ \A i \in 1..Len(t) : Less(t[i], call.duration)

(***************************** claims: add_noise ***************************)
NoiseCall == pc = "done" /\ call.op = "add_noise"

\* C6: add_noise with a noise type outside {gaussian, uniform, pink} does not
\* fail, for every target SNR: the noise vector is all zeros and as long as
\* the signal, noisy_signal is the input sample for sample, noise_rms is 0
\* and actual_snr_db is +inf.
C6_UnknownNoiseIsNoOp ==
    (NoiseCall /\ call.noise_type \notin NoiseTypes)
        => /\ ret.kind = "return"
           /\ ret.value.noise = Zeros(Len(call.signal_data))
           /\ Len(ret.value.noisy_signal) = Len(call.signal_data)
           /\ \A i \in 1..Len(call.signal_data) :
                 ret.value.noisy_signal[i] = <<call.signal_data[i], 1>>
           /\ IsZeroNumber(ret.value.noise_rms)
           /\ ret.value.actual_snr_db = [q |-> PosInf]

(***************************** claims: unsupported tags ********************)
UnsupportedTagCall ==
    \/ GenerateCall /\ call.signal_type \notin Shapes
    \/ NoiseCall /\ call.noise_type \notin NoiseTypes
    \/ FilterCall /\ call.filter_type \notin FilterTypes /\ ~CutoffOutOfRange

\* C4 as stated: the record that generate_signal returns for an unsupported
\* shape tag, add_noise for an unsupported noise type and filter_signal for
\* an unsupported filter type (and a valid cutoff) contains an `error` field.
C4_UnsupportedTagIsErrorField ==
    (UnsupportedTagCall /\ ret.kind = "return") => HasError

\* C4 as amended: of the three, only filter_signal reports an unsupported tag
\* in an `error` field, and it never raises for one.  generate_signal and
\* add_noise return a record without an `error` field, in which the tag
\* shows as signal_type "unknown" and as an all-zero noise vector; they
\* raise just when they raise for a supported tag too: with
\* int(sample_rate * duration) = 0 samples, and with an SNR whose
\* 10**(snr_db / 10) overflows.
C4_OnlyFilterReportsUnsupportedTag ==
    /\ (FilterCall /\ call.filter_type \notin FilterTypes /\ ~CutoffOutOfRange)
          => (IsErrorResult /\ ret.value.error = "Unknown filter type")
    /\ (GenerateCall /\ call.signal_type \notin Shapes)
          => IF call.sample_rate * call.duration[1] < call.duration[2]
             THEN ret.kind = "raise"
             ELSE /\ ret.kind = "return"
                  /\ ~HasError
                  /\ ret.value.signal_type = "unknown"
    /\ (NoiseCall /\ call.noise_type \notin NoiseTypes)
          => IF call.snr_db >= MinOverflowSnrDb
             THEN ret.kind = "raise"
             ELSE /\ ret.kind = "return"
                  /\ ~HasError
                  /\ ret.value.noise = Zeros(Len(call.signal_data))
    /\ (GenerateCall /\ call.sample_rate * call.duration[1] < call.duration[2])
          => ret.kind = "raise"
    /\ (NoiseCall /\ call.snr_db >= MinOverflowSnrDb) => ret.kind = "raise"

\* generate_signal has answered an unsupported tag with a record that has no
\* `error` field
C4_Witness ==
    /\ GenerateCall
    /\ call.signal_type = "pulse"
    /\ ret.kind = "return"
    /\ ~HasError

(***************************** claims: compute_fft *************************)
FftCall == pc = "done" /\ call.op = "compute_fft"

\* the four sequences are floor(N/2) long, bin k is k * sample_rate / N, and
\* the bins are non-negative and strictly ascending
HalfSpectrum ==
    LET half == call.signal_data.n \div 2
        f == ret.value.frequencies
    IN  /\ Len(f) = half
        /\ Len(ret.value.magnitude) = half
        /\ Len(ret.value.magnitude_db) = half
        /\ Len(ret.value.phase) = half
        /\ \A p \in 1..half :
              /\ Same(f[p], <<(p - 1) * call.sample_rate, call.signal_data.n>>)
              /\ ~Less(f[p], <<0, 1>>)
        /\ \A p \in 1..(half - 1) : Less(f[p], f[p + 1])

\* C9: for an N-sample input compute_fft returns frequencies, magnitude,
\* magnitude_db and phase, each floor(N/2) long; the frequency bins are
\* non-negative and strictly ascending, and bin k is k * sample_rate / N.
C9_HalfSpectrumReturned == FftCall => (ret.kind = "return" /\ HalfSpectrum)

\* bin k >= 1 (at position k + 1) is the first bin of the largest magnitude
\* among the bins 1 .. floor(N/2) - 1
FirstLargestAfterDc(m, k) ==
    /\ k \in 1..(Len(m) - 1)
    /\ \A j \in 1..(Len(m) - 1) : ~Less(m[k + 1], m[j + 1])
    /\ \A j \in 1..(k - 1) : Less(m[j + 1], m[k + 1])

\* C10: compute_fft never reports DC as dominant: dominant_frequency is the
\* frequency of the first bin k >= 1 of the largest magnitude among the bins
\* 1 .. floor(N/2) - 1, dominant_magnitude is that bin's magnitude and
\* dc_component is the magnitude of bin 0, whatever the magnitude of bin 0.
C10_DominantExcludesDc ==
    (FftCall /\ ret.kind = "return")
        => LET m == ret.value.magnitude
               f == ret.value.frequencies
           IN  /\ \E k \in 1..(Len(m) - 1) :
                     /\ FirstLargestAfterDc(m, k)
                     /\ ret.value.dominant_frequency = f[k + 1]
                     /\ ret.value.dominant_magnitude = m[k + 1]
               /\ ~Same(ret.value.dominant_frequency, <<0, 1>>)
               /\ ret.value.dc_component = m[1]

\* bin 0 is the largest of the whole spectrum, and two later bins tie
C10_Witness ==
    /\ FftCall
    /\ ret.kind = "return"
    /\ LET m == ret.value.magnitude
       IN  /\ Len(m) = 4
           /\ \A p \in 2..Len(m) : Less(m[p], m[1])
           /\ Less(m[2], m[3])
           /\ Same(m[3], m[4])
           /\ ret.value.dominant_magnitude = m[3]
           /\ ret.value.dominant_frequency = ret.value.frequencies[3]

\* C11: compute_fft on a signal of one sample does not fail: it returns a
\* spectrum of a single DC bin, one frequency 0 whose magnitude is the one
\* reported as dc_component.
C11_SingleSampleGivesDcBin ==
    (FftCall /\ call.signal_data.n = 1)
        => /\ ret.kind = "return"
           /\ Len(ret.value.frequencies) = 1
           /\ Same(ret.value.frequencies[1], <<0, 1>>)
           /\ Len(ret.value.magnitude) = 1
           /\ ret.value.dc_component = ret.value.magnitude[1]

(***************************** claims: bandwidth_analysis ******************)
BandwidthCall == pc = "done" /\ call.op = "bandwidth_analysis"

\* the spectrum of the call's signal
Spectrum == compute_fft(call.signal_data, call.sample_rate).value

\* the bins of the largest magnitude_db
PeakBins ==
    LET db == Spectrum.magnitude_db
    IN  {p \in 1..Len(db) : \A r \in 1..Len(db) : ~Less(db[p].db_of, db[r].db_of)}

\* the bins whose magnitude_db is >= max(magnitude_db) + threshold_db
QualifyingBins ==
    LET db == Spectrum.magnitude_db
    IN  {p \in 1..Len(db) :
            \A r \in PeakBins : db_geq(db[p], db[r], call.threshold_db)}

IsZeroRational(x) == x[1] = 0 /\ x[2] > 0

\* C12: in a result of bandwidth_analysis, lower_frequency is the least and
\* upper_frequency the largest frequency among all the bins whose
\* magnitude_db is >= max(magnitude_db) + threshold_db, contiguous or not;
\* bandwidth = upper - lower >= 0, center_frequency = (upper + lower) / 2
\* lies between the two, and peak_magnitude_db is the largest magnitude_db.
C12_BandwidthSpansQualifyingBins ==
    (BandwidthCall /\ ret.kind = "return")
        => LET f == Spectrum.frequencies
               v == ret.value
           IN  /\ \A p \in PeakBins :
                     v.peak_magnitude_db = Spectrum.magnitude_db[p]
               /\ QualifyingBins # {}
                     => /\ \E p \in QualifyingBins : v.lower_frequency = f[p]
                        /\ \A p \in QualifyingBins : ~Less(f[p], v.lower_frequency)
                        /\ \E p \in QualifyingBins : v.upper_frequency = f[p]
                        /\ \A p \in QualifyingBins : ~Less(v.upper_frequency, f[p])
                        /\ Same(v.bandwidth,
                                Minus(v.upper_frequency, v.lower_frequency))
                        /\ ~Less(v.bandwidth, <<0, 1>>)
                        /\ Same(Times(<<2, 1>>, v.center_frequency),
                                Plus(v.upper_frequency, v.lower_frequency))
                        /\ ~Less(v.center_frequency, v.lower_frequency)
                        /\ ~Less(v.upper_frequency, v.center_frequency)

\* two qualifying bins with a bin below the threshold between them, and the
\* band returned reaches from the first qualifying bin to the last
C12_Witness ==
    /\ BandwidthCall
    /\ ret.kind = "return"
    /\ \E p \in QualifyingBins, r \in QualifyingBins :
          /\ \E q \in (p + 1)..(r - 1) : q \notin QualifyingBins
          /\ \A q \in QualifyingBins : p <= q /\ q <= r
          /\ ret.value.lower_frequency = Spectrum.frequencies[p]
          /\ ret.value.upper_frequency = Spectrum.frequencies[r]
          /\ Less(<<0, 1>>, ret.value.bandwidth)

\* C13: in a result of bandwidth_analysis with threshold_db <= 0 the peak
\* bins qualify, so at least one bin is selected and the band returned
\* holds the peak; and when no bin qualifies, which takes threshold_db > 0,
\* lower_frequency, upper_frequency, bandwidth and center_frequency are 0.
C13_PeakQualifiesElseZeros ==
    (BandwidthCall /\ ret.kind = "return")
        => LET f == Spectrum.frequencies
               v == ret.value
           IN  /\ call.threshold_db <= 0
                     => /\ PeakBins # {}
                        /\ PeakBins \subseteq QualifyingBins
                        /\ \A p \in PeakBins :
                              /\ ~Less(f[p], v.lower_frequency)
                              /\ ~Less(v.upper_frequency, f[p])
               /\ QualifyingBins = {}
                     => /\ call.threshold_db > 0
                        /\ IsZeroRational(v.lower_frequency)
                        /\ IsZeroRational(v.upper_frequency)
                        /\ IsZeroRational(v.bandwidth)
                        /\ IsZeroRational(v.center_frequency)

\* a spectrum with energy above DC, a threshold above the peak, no bin
\* qualifying and the four outputs 0
C13_Witness ==
    /\ BandwidthCall
    /\ ret.kind = "return"
    /\ call.threshold_db > 0
    /\ QualifyingBins = {}
    /\ \E p \in PeakBins : p > 1 /\ Less(<<0, 1>>, Spectrum.magnitude[p])
    /\ IsZeroRational(ret.value.upper_frequency)
    /\ IsZeroRational(ret.value.center_frequency)

\* C14: in a result of bandwidth_analysis with threshold_db = 0 the bins
\* selected are exactly the peak bins; with a single peak bin
\* lower_frequency, upper_frequency and center_frequency are that bin's
\* frequency and bandwidth is 0.
C14_ZeroThresholdKeepsPeakOnly ==
    (BandwidthCall /\ ret.kind = "return" /\ call.threshold_db = 0)
        => LET f == Spectrum.frequencies
               v == ret.value
           IN  /\ QualifyingBins = PeakBins
               /\ \E p \in PeakBins : v.lower_frequency = f[p]
               /\ \E p \in PeakBins : v.upper_frequency = f[p]
               /\ \A p \in 1..Len(f) :
                     (Less(f[p], v.lower_frequency) \/ Less(v.upper_frequency, f[p]))
                         => p \notin PeakBins
               /\ Cardinality(PeakBins) = 1
                     => \A p \in PeakBins :
                           /\ Same(v.lower_frequency, f[p])
                           /\ Same(v.upper_frequency, f[p])
                           /\ Same(v.center_frequency, f[p])
                           /\ IsZeroRational(v.bandwidth)

\* a single peak bin above DC, which is not the last bin either
C14_Witness ==
    /\ BandwidthCall
    /\ ret.kind = "return"
    /\ call.threshold_db = 0
    /\ \E p \in 2..(Len(Spectrum.frequencies) - 1) :
          /\ PeakBins = {p}
          /\ Same(ret.value.center_frequency, Spectrum.frequencies[p])
          /\ Same(ret.value.lower_frequency, ret.value.upper_frequency)
          /\ IsZeroRational(ret.value.bandwidth)

(***************************** claims: frequency sweeps ********************)
FreqRespCall == pc = "done" /\ call.op = "frequency_response"

RlcCall == pc = "done" /\ call.op = "run_rlc_resonance"

\* inductance and capacitance are both given and both positive
BothReactive ==
    /\ call.inductance # None
    /\ call.capacitance # None
    /\ call.inductance[1] > 0
    /\ call.capacitance[1] > 0

\* consecutive entries of f are all in the ratio of the first two
ConstantRatio(f) ==
    \A k \in 1..(Len(f) - 1) :
        Same(Times(f[k + 1], Inverse(f[k])), Times(f[2], Inverse(f[1])))

AlignedWithAxis(v, n) ==
    /\ Len(v.frequencies) = n
    /\ Len(v.gains_db) = n
    /\ Len(v.phases) = n
    /\ Len(v.impedances) = n

\* C15 as stated: the frequency axis frequency_response returns has exactly
\* `points` entries, the first freq_start and the last freq_end, in a
\* constant ratio, with gains_db, phases and impedances as long, for every
\* points >= 1.
C15_AxisRunsStartToEnd ==
    (FreqRespCall /\ ret.kind = "return")
        => LET f == ret.value.frequencies
           IN  /\ AlignedWithAxis(ret.value, call.points)
               /\ Same(f[1], call.freq_start)
               /\ Same(f[Len(f)], call.freq_end)
               /\ ConstantRatio(f)

\* C15 as amended: frequency_response raises when inductance or capacitance
\* is missing and when resistance is 0 with both positive, and returns
\* otherwise.  The axis it returns has exactly `points` entries, with
\* gains_db, phases and impedances as long, and starts at freq_start; with
\* points >= 2 it ends at freq_end and consecutive entries are in a
\* constant ratio; with points = 1 its only entry is freq_start, whatever
\* freq_end is.
C15_AxisStartsAtStart ==
    FreqRespCall
        => /\ ret.kind = "raise"
                 <=> \/ call.inductance = None
                     \/ call.capacitance = None
                     \/ (BothReactive /\ call.resistance = 0)
           /\ ret.kind = "return"
                 => LET f == ret.value.frequencies
                    IN  /\ AlignedWithAxis(ret.value, call.points)
                        /\ Same(f[1], call.freq_start)
                        /\ call.points >= 2
                              => /\ Same(f[Len(f)], call.freq_end)
                                 /\ ConstantRatio(f)
                        /\ call.points = 1 => f = <<call.freq_start>>

\* a sweep of one point whose end is not its start
C15_Witness ==
    /\ FreqRespCall
    /\ ret.kind = "return"
    /\ call.points = 1
    /\ ~Same(call.freq_start, call.freq_end)
    /\ ret.value.frequencies = <<call.freq_start>>
    /\ Len(ret.value.impedances) = 1

\* the reactances of the call's network at frequency f, a missing (zero)
\* element contributing 0
XL(f) == IF call.inductance[1] > 0 THEN Times(f, call.inductance) ELSE <<0, 1>>

XC(f) ==
    IF call.capacitance[1] > 0 THEN Inverse(Times(f, call.capacitance))
    ELSE <<0, 1>>

\* a gain, as the model holds it, is 0 dB
ZeroGain(g) == "q" \in DOMAIN g /\ g.q[1] = 0 /\ g.q[2] > 0

\* a gain, as the model holds it, is <= 0 dB: 0, -inf, or the dB value of a
\* ratio <= 1
NonPositiveGain(g) ==
    IF "q" \in DOMAIN g THEN g.q[1] <= 0
    ELSE ~Less(g.db_of_root.den, <<g.db_of_root.num, 1>>)

\* impedance z, as the model holds it, compared with the resistance r
ImpedanceIs(z, r) == Same(z.sqrt_of, <<r * r, 1>>)

\* C16: at every point of a sweep that frequency_response returns, the
\* impedance is >= resistance and the gain is <= 0 dB; impedance =
\* resistance, gain = 0 dB and phase = 0 hold at the points where the
\* inductive and capacitive reactances are equal, and only there; where the
\* impedance is 0 the gain is 0 dB.
C16_ImpedanceAtLeastResistance ==
    (FreqRespCall /\ ret.kind = "return")
        => \A k \in 1..Len(ret.value.frequencies) :
              LET f == ret.value.frequencies[k]
                  z == ret.value.impedances[k]
                  g == ret.value.gains_db[k]
                  ph == ret.value.phases[k]
                  atResonance == Same(XL(f), XC(f))
              IN  /\ ~Less(z.sqrt_of, <<call.resistance * call.resistance, 1>>)
                  /\ NonPositiveGain(g)
                  /\ atResonance <=> ImpedanceIs(z, call.resistance)
                  /\ atResonance <=> ZeroGain(g)
                  /\ atResonance <=> ZeroGain(ph)
                  /\ z.sqrt_of[1] = 0 => ZeroGain(g)

\* a network with all three elements, swept through its resonance: one
\* point at it with impedance = resistance and gain 0 dB, one point off it
\* with a larger impedance and a gain below 0 dB
C16_Witness ==
    /\ FreqRespCall
    /\ ret.kind = "return"
    /\ call.resistance > 0
    /\ BothReactive
    /\ \E k \in 1..Len(ret.value.frequencies) :
          /\ Same(XL(ret.value.frequencies[k]), XC(ret.value.frequencies[k]))
          /\ ImpedanceIs(ret.value.impedances[k], call.resistance)
          /\ ZeroGain(ret.value.gains_db[k])
    /\ \E k \in 1..Len(ret.value.frequencies) :
          /\ ~Same(XL(ret.value.frequencies[k]), XC(ret.value.frequencies[k]))
          /\ ~ZeroGain(ret.value.gains_db[k])
          /\ NonPositiveGain(ret.value.gains_db[k])

\* C17: frequency_response returns resonance figures exactly when inductance
\* and capacitance are both positive: then resonant_frequency is not null,
\* q_factor = (1 / R) * sqrt(L / C) and bandwidth are present and
\* bandwidth * q_factor = resonant_frequency; when either is 0,
\* resonant_frequency is null, q_factor and bandwidth are absent and the
\* missing reactance contributes 0 at every point.
C17_ResonanceFiguresIffBothReactive ==
    (FreqRespCall /\ call.inductance # None /\ call.capacitance # None)
        => /\ ret.kind = "return"
           /\ IF BothReactive
              THEN /\ ret.value.resonant_frequency # None
                   /\ "q_factor" \in DOMAIN ret.value
                   /\ "bandwidth" \in DOMAIN ret.value
                   /\ Same(Times(ret.value.bandwidth, ret.value.q_factor),
                           ret.value.resonant_frequency)
                   /\ Same(Times(Square(ret.value.q_factor),
                                 <<call.resistance * call.resistance, 1>>),
                           Times(call.inductance, Inverse(call.capacitance)))
              ELSE /\ ret.value.resonant_frequency = None
                   /\ "q_factor" \notin DOMAIN ret.value
                   /\ "bandwidth" \notin DOMAIN ret.value
                   /\ \A k \in 1..Len(ret.value.frequencies) :
                         Same(ret.value.impedances[k].sqrt_of,
                              Plus(<<call.resistance * call.resistance, 1>>,
                                   Square(Minus(XL(ret.value.frequencies[k]),
                                                XC(ret.value.frequencies[k])))))

\* C18: frequency_response and run_rlc_resonance, called with resistance = 0
\* and a positive inductance and capacitance, return a result record: the
\* degenerate values are limited, no division error is raised.
C18_ZeroResistanceReturns ==
    ((FreqRespCall \/ RlcCall) /\ BothReactive /\ call.resistance = 0)
        => ret.kind = "return"

\* the angles a and b, as the model holds them, are the same
SameAngle(a, b) ==
    IF "q" \in DOMAIN a \/ "q" \in DOMAIN b THEN a = b
    ELSE /\ Same(a.atan2_of.y, b.atan2_of.y)
         /\ a.atan2_of.x = b.atan2_of.x

\* C19: for the same resistance > 0, inductance > 0, capacitance > 0, start,
\* end and point count, frequency_response and run_rlc_resonance return the
\* same frequencies, impedances, gains and phases (the phase being
\* atan2(-(X_L - X_C), R) in degrees) at every point, and the same resonant
\* frequency, Q factor and bandwidth.
C19_SweepsAgree ==
    (FreqRespCall /\ BothReactive /\ call.resistance > 0)
        => LET lab == run_rlc_resonance(call.resistance, call.inductance,
                                        call.capacitance, call.freq_start,
                                        call.freq_end, call.points)
           IN  /\ ret.kind = "return"
               /\ lab.kind = "return"
               /\ ret.value.frequencies = lab.value.frequency_response.frequencies
               /\ ret.value.impedances = lab.value.frequency_response.impedances
               /\ ret.value.gains_db = lab.value.frequency_response.gains_db
               /\ \A k \in 1..call.points :
                     /\ SameAngle(ret.value.phases[k],
                                  lab.value.frequency_response.phases[k])
                     /\ SameAngle(lab.value.frequency_response.phases[k],
                                  degrees_atan2(
                                      Neg(Minus(XL(ret.value.frequencies[k]),
                                                XC(ret.value.frequencies[k]))),
                                      call.resistance))
               /\ Same(ret.value.resonant_frequency, lab.value.resonant_frequency_hz)
               /\ Same(ret.value.q_factor, lab.value.q_factor)
               /\ Same(ret.value.bandwidth, lab.value.bandwidth_hz)

\* C20: a frequency-response request that gives resistance and leaves out
\* inductance and capacitance does not fail: it is answered as a purely
\* resistive network, impedance = resistance at every point, without
\* resonance figures.
C20_ResistanceAloneSuffices ==
    (FreqRespCall /\ call.inductance = None /\ call.capacitance = None)
        => /\ ret.kind = "return"
           /\ ret.value.resonant_frequency = None
           /\ "q_factor" \notin DOMAIN ret.value
           /\ "bandwidth" \notin DOMAIN ret.value
           /\ \A k \in 1..Len(ret.value.impedances) :
                 ImpedanceIs(ret.value.impedances[k], call.resistance)

(***************************** claims: purity ******************************)
CoreOps ==
    {"generate_signal", "compute_fft", "add_noise", "bandwidth_analysis",
     "filter_signal", "frequency_response"}

\* C21: a call of a core transform (generate_signal, compute_fft, add_noise,
\* bandwidth_analysis, filter_signal, frequency_response) leaves the
\* calculations log with the records it had before the call.
C21_CoreCallsLeaveLogAlone ==
    [][(pc = "idle" /\ pc' = "done" /\ call'.op \in CoreOps) => log' = log]_vars

(***************************** claims: short signals ***********************)
\* C27: compute_fft and bandwidth_analysis return a spectrum result for every
\* signal of N >= 2 samples and positive sample rate, N = 2 and N = 3
\* included; the dominant frequency of compute_fft is one of the half
\* spectrum's bins.
C27_ShortSignalsReturn ==
    (/\ pc = "done"
     /\ call.op \in {"compute_fft", "bandwidth_analysis"}
     /\ call.signal_data.n >= 2
     /\ call.sample_rate > 0)
        => /\ ret.kind = "return"
           /\ call.op = "compute_fft"
                => \E p \in 1..Len(ret.value.frequencies) :
                      ret.value.dominant_frequency = ret.value.frequencies[p]

(***************************** claims: order of validation *****************)
CutoffMessage == "Cutoff frequency must be between 0 and Nyquist frequency"

\* C29: filter_signal validates the cutoff before the filter type.  A call
\* with an out-of-range cutoff returns the cutoff message whatever its
\* filter type tag; 'Unknown filter type' is returned only when every cutoff
\* value is strictly in range (and the tag is unsupported); both error
\* results hold the unchanged input signal and the message, nothing else.
C29_CutoffCheckedBeforeType ==
    FilterCall
        => /\ CutoffOutOfRange
                => (IsErrorResult /\ ret.value.error = CutoffMessage)
           /\ (IsErrorResult /\ ret.value.error = "Unknown filter type")
                => (~CutoffOutOfRange /\ call.filter_type \notin FilterTypes)
           /\ IsErrorResult
                => /\ DOMAIN ret.value = {"filtered_signal", "error"}
                   /\ ret.value.filtered_signal = call.signal_data
                   /\ ret.value.error \in {CutoffMessage, "Unknown filter type"}

C29_Witness ==
    /\ FilterCall
    /\ call.filter_type = "notch"
    /\ CutoffOutOfRange
    /\ IsErrorResult
    /\ ret.value.error = CutoffMessage

(***************************** claims: noise results ***********************)
\* a == b of two floats: nan equals nothing, an infinity equals itself
FloatEq(a, b) ==
    IF a[2] = 0 \/ b[2] = 0 THEN a = b /\ ~IsNaN(a) ELSE Same(a, b)

\* the names under which a result could carry the signal it was given
OriginalSignalKeys == {"signal", "original", "original_signal", "signal_data"}

\* C25: add_noise returns a result that carries the original signal, the
\* noise vector, the noisy signal, the target SNR and the achieved SNR;
\* noise and noisy signal are as long as the input, and noisy_signal[i] is
\* signal[i] + noise[i] at every index, for every noise type.
C25_NoiseResultComplete ==
    (NoiseCall /\ ret.kind = "return")
        => /\ \E k \in OriginalSignalKeys :
                 k \in DOMAIN ret.value /\ ret.value[k] = call.signal_data
           /\ {"noise", "noisy_signal", "target_snr_db", "actual_snr_db"}
                 \subseteq DOMAIN ret.value
           /\ Len(ret.value.noise) = Len(call.signal_data)
           /\ Len(ret.value.noisy_signal) = Len(call.signal_data)
           /\ \A i \in 1..Len(call.signal_data) :
                 FloatEq(ret.value.noisy_signal[i],
                         Plus(<<call.signal_data[i], 1>>, ret.value.noise[i]))

\* the realized noise power np.mean(noise**2) of the returned noise vector
RealizedNoisePower == mean_sq(ret.value.noise)

\* C26: the achieved SNR is +inf exactly when the realized noise power (the
\* mean of the squared noise samples) is zero, and 10 * log10(signal power /
\* noise power) otherwise; a call whose noise power is zero (an all-zero
\* input included) returns, for every noise type.
C26_InfiniteSnrIffNoNoise ==
    /\ (NoiseCall /\ ret.kind = "return")
          => LET p == RealizedNoisePower
             IN  /\ ret.value.actual_snr_db = [q |-> PosInf]
                      <=> (p[2] > 0 /\ p[1] = 0)
                 /\ (p[2] > 0 /\ p[1] > 0 /\ SumSq(call.signal_data) > 0)
                      => ret.value.actual_snr_db
                           = [db_of |-> <<SumSq(call.signal_data), p[1]>>]
    /\ (NoiseCall /\ SumSq(call.signal_data) = 0
          /\ call.snr_db < MinOverflowSnrDb)
          => ret.kind = "return"

(***************************** claims: the calculations log ****************)
\* the module name under which an operation saves its calculation
SavedAs(op) ==
    IF op = "generate_signal" THEN "signal_generator" ELSE "bandwidth_analysis"

\* C28: a generate_signal call that returns appends exactly one
\* 'signal_generator' record to the calculations log and a bandwidth_analysis
\* call that returns exactly one 'bandwidth_analysis' record, in the step in
\* which the result is there; a call that raises appends nothing; compute_fft,
\* add_noise, filter_signal, signal_statistics and frequency_response never
\* append; no step removes or changes a record the log already holds.
C28_LogGrowsOnlyOnSavedCalls ==
    [][IF /\ pc = "idle"
          /\ pc' = "done"
          /\ call'.op \in {"generate_signal", "bandwidth_analysis"}
          /\ ret'.kind = "return"
       THEN /\ Len(log') = Len(log) + 1
            /\ SubSeq(log', 1, Len(log)) = log
            /\ log'[Len(log')].module = SavedAs(call'.op)
       ELSE log' = log]_vars

C28_Witness ==
    /\ pc = "done"
    /\ call.op = "bandwidth_analysis"
    /\ ret.kind = "return"
    /\ Len(log) = 2
    /\ log[1].module = "signal_generator"
    /\ log[2].module = "bandwidth_analysis"

(***************************** claims: determinism *************************)
\* the results the operation of the call in progress can give for the
\* arguments of that call
CallOutcomes ==
    CASE call.op = "generate_signal" ->
           {generate_signal(call.signal_type, call.frequency, call.amplitude,
                            call.duration, call.sample_rate, call.phase,
                            call.dc_offset).ret}
      [] call.op = "compute_fft" ->
           {compute_fft(call.signal_data, call.sample_rate)}
      [] call.op = "add_noise" ->
           add_noise(call.signal_data, call.noise_type, call.snr_db)
      [] call.op = "bandwidth_analysis" ->
           {bandwidth_analysis(call.signal_data, call.sample_rate,
                               call.threshold_db).ret}
      [] call.op = "filter_signal" ->
           filter_signal(call.signal_data, call.sample_rate, call.filter_type,
                         call.cutoff_freq, call.order)
      [] call.op = "frequency_response" ->
           {frequency_response(call.resistance, call.inductance,
                               call.capacitance, call.freq_start,
                               call.freq_end, call.points)}

\* a band edge pair in descending order, which one scipy release refuses and
\* another accepts: the answer is fixed by the installation, not by the call
DescendingBand ==
    /\ call.op = "filter_signal"
    /\ call.cutoff_freq.isList
    /\ call.cutoff_freq.vals[1] >= call.cutoff_freq.vals[2]

\* C22: each of the six core operations is deterministic: a second
\* invocation with the arguments of the call in progress returns the result
\* this call returned, whatever calls were made before it.
C22_EqualInputsEqualResults ==
    (pc = "done" /\ call.op \in CoreOps /\ ~DescendingBand)
        => \A again \in CallOutcomes : again = ret

(***************************** claims: fresh results ***********************)
\* C24: the signal sequence in a returned result of add_noise or
\* filter_signal, an ordinary result or an error result, is a fresh value and
\* not the sequence object the caller passed in (compute_fft and
\* bandwidth_analysis return no signal sequence).
C24_ResultSignalIsFresh ==
    /\ (NoiseCall /\ ret.kind = "return")
          => noisy_signal_object(ret.value) # "signal_data"
    /\ (FilterCall /\ ret.kind = "return")
          => filtered_signal_object(ret.value) # "signal_data"

(***************************** claims: the virtual lab *********************)
LabCall == pc = "done" /\ call.op = "api_lab_run"

\* |x| of a rational with a positive denominator
AbsQ(x) == <<IF x[1] < 0 THEN 0 - x[1] ELSE x[1], x[2]>>

\* |actual - nominal| <= |nominal| * percent / 100
WithinTolerance(actual, nominal, percent) ==
    ~Less(Times(AbsQ(nominal), <<percent, 100>>), AbsQ(Minus(actual, nominal)))

\* the bookkeeping of a tolerance run: every numeric non-zero parameter is
\* within the tolerance of its nominal value, every other parameter is
\* unchanged, and the result names the nominal parameters, the actual ones
\* and the tolerance
ToleranceRecorded(result) ==
    /\ result.nominal_parameters = call.parameters
    /\ result.tolerance_applied = call.tolerance_percent
    /\ DOMAIN result.actual_parameters = DOMAIN call.parameters
    /\ \A key \in DOMAIN call.parameters :
          LET nominal == call.parameters[key]
              actual == result.actual_parameters[key]
          IN  IF IsNumber(nominal) /\ nominal.num[1] # 0
              THEN /\ IsNumber(actual)
                   /\ WithinTolerance(actual.num, nominal.num,
                                      call.tolerance_percent)
              ELSE actual = nominal

\* C30: a lab run with tolerance perturbs each numeric non-zero parameter
\* within +/- tolerance_percent % of its nominal value and passes zero-valued
\* and non-numeric parameters through unchanged, and its result records the
\* nominal parameters, the actual parameters and the tolerance applied; for
\* an unknown experiment name the tolerance run returns only {'error':
\* 'Unknown experiment'}, and api_lab_run answers an unknown experiment with
\* an error status whether or not with_tolerance is set.
C30_ToleranceRunAndUnknownExperiment ==
    (LabCall /\ ret.kind = "return")
        => /\ (call.experiment = "rc_transient" /\ call.with_tolerance)
                => ToleranceRecorded(ret.value.body.result)
           /\ (call.experiment # "rc_transient" /\ call.with_tolerance)
                => ret.value.body.result = [error |-> "Unknown experiment"]
           /\ call.experiment # "rc_transient"
                => ret.value.status >= 400

(***************************** claims: concurrency *************************)
\* C23: in every interleaving of core operations running at the same time
\* (two generate_signal or two bandwidth_analysis calls included) no
\* operation waits for another or fails because of another, and each one
\* that has finished has the result it gives when it runs alone.
C23_ThreadsDoNotInterfere ==
    \A w \in Workers :
        /\ workers[w].pc # "waiting"
        /\ workers[w].pc = "done"
              => workers[w].ret = result_of(workers[w].call)

====
